---- MODULE Spec2Model ----
(***************************************************************************)
(* HNSW index (src/cmd_args.h, class HNSW) with its distance kernel        *)
(* (src/distance.h) and the exact-KNN reference of the test driver         *)
(* (src/unnamed/part_000).                                                 *)
(*                                                                         *)
(* Node ids are 0-based as in the source; the node with id i is            *)
(* nodes[i + 1], and its list for layer l is nodes[i + 1].neighbors[l + 1].*)
(* Coordinates are integers: every comparison the index makes is between   *)
(* sums of squared differences, so a common scaling of the coordinates     *)
(* leaves the order of distances unchanged.                                *)
(***************************************************************************)
EXTENDS Integers, Sequences, FiniteSets, TLC

VARIABLES
    neon,         \* the build: TRUE when __ARM_NEON is defined (distance.h:27)
    dim_,         \* HNSW::dim_
    M_,           \* HNSW::M_
    ef_,          \* HNSW::ef_ (ef_construction)
    nodes,        \* HNSW::nodes_ : sequence of [vec, level, neighbors]
    entry_point,  \* HNSW::entry_point_
    max_level,    \* HNSW::max_level_
    readers,      \* threads holding global_lock_ in shared mode
    th,           \* per thread: program counter and the locals of its call
    feed,         \* the inputs the caller still hands to insert, in order
    junk,         \* what a load past the end of a vector's storage yields
    kern,         \* a call of l2_distance on its own: arguments and outcome
    batch,        \* the running insert_batch call, and what its caller observed
    tl_visited    \* per thread: HNSW::tl_visited, the thread-local scratchpad

vars == <<neon, junk, dim_, M_, ef_, nodes, entry_point, max_level, readers, th, feed,
          kern, batch, tl_visited>>

-----------------------------------------------------------------------------
(* Bounds of the model.                                                    *)

MaxNodes == 3
SeqNodes == 4
MaxLevel == 1
SizeBits == 4
\* The longest vectors handed to the distance kernel on its own.
MaxLen == 5
\* The length of the sequential core of insert_batch: 500 in the source
\* (cmd_args.h:70), scaled down with the data so that a batch of
\* CoreSize + 2 elements leaves two of them to the workers.
CoreSize == 1

Threads == {1, 2}

-----------------------------------------------------------------------------
(* Sequence helpers.                                                       *)

Range(s) == {s[i] : i \in 1..Len(s)}

Min2(a, b) == IF a < b THEN a ELSE b

Max2(a, b) == IF a > b THEN a ELSE b

\* std::pair<float,int> comparison: lexicographic on (distance, id).
PairLess(p, r) == p[1] < r[1] \/ (p[1] = r[1] /\ p[2] < r[2])

MinPair(S) == CHOOSE p \in S : \A r \in S : r = p \/ PairLess(p, r)

MaxPair(S) == CHOOSE p \in S : \A r \in S : r = p \/ PairLess(r, p)

\* Position of the least pair of a non-empty sequence (first one on equal pairs).
RECURSIVE MinIdx(_, _, _)
MinIdx(s, i, best) ==
    IF i > Len(s) THEN best
    ELSE MinIdx(s, i + 1, IF PairLess(s[i], s[best]) THEN i ELSE best)

RemoveAt(s, i) == SubSeq(s, 1, i - 1) \o SubSeq(s, i + 1, Len(s))

\* std::sort on a vector of pairs: ascending, equal pairs kept (all of them).
RECURSIVE SortPairs(_)
SortPairs(s) ==
    IF s = <<>> THEN <<>>
    ELSE LET i == MinIdx(s, 1, 1)
         IN  <<s[i]>> \o SortPairs(RemoveAt(s, i))

\* The ids of a set of (distance, id) pairs in ascending pair order: what
\* draining the max-heap `top` and reversing yields (cmd_args.h:231-237).
RECURSIVE DrainAscending(_)
DrainAscending(S) ==
    IF S = {} THEN <<>>
    ELSE LET p == MaxPair(S)
         IN  Append(DrainAscending(S \ {p}), p[2])

-----------------------------------------------------------------------------
(* Distance kernel, src/distance.h.                                        *)

Sq(x) == x * x

\* b[i] as the kernel loads it: the element, or past the end of b's storage
\* (b shorter than a) whatever lies there.
At(b, i) == IF i <= Len(b) THEN b[i] ELSE junk

\* l2_distance_: the scalar reference, summing over [0, a.size()).
RECURSIVE ScalarSum(_, _, _, _)
ScalarSum(a, b, i, n) ==
    IF i >= n THEN 0
    ELSE Sq(a[i + 1] - At(b, i + 1)) + ScalarSum(a, b, i + 1, n)

l2_distance_(a, b) == ScalarSum(a, b, 0, Len(a))

\* size_t arithmetic: n - 4 is computed modulo 2^SizeBits.
SizeMod == 2 ^ SizeBits

BlockBound(n) == (n - 4 + SizeMod) % SizeMod

\* The block starts i = 0, 4, 8, ... for which the loop test i <= n - 4
\* (unsigned) holds; the loop leaves at the first start that fails it.
RECURSIVE BlockStarts(_, _)
BlockStarts(n, i) ==
    IF i <= BlockBound(n) /\ i + 4 < SizeMod
    THEN {i} \cup BlockStarts(n, i + 4)
    ELSE IF i <= BlockBound(n) THEN {i} ELSE {}

\* Every index the 4-lane loop loads from a and from b.
BlockReads(n) == UNION {{i, i + 1, i + 2, i + 3} : i \in BlockStarts(n, 0)}

\* The 4-lane path reads past the end of its arguments.
KernelOutOfBounds(n) == \E i \in BlockReads(n) : i >= n

\* One block: the four lanes of vsubq_f32 / vmlaq_f32 at offset i.
BlockTerm(a, b, i) ==
    Sq(a[i + 1] - At(b, i + 1)) + Sq(a[i + 2] - At(b, i + 2))
    + Sq(a[i + 3] - At(b, i + 3)) + Sq(a[i + 4] - At(b, i + 4))

RECURSIVE BlockSum(_, _, _)
BlockSum(a, b, starts) ==
    IF starts = {} THEN 0
    ELSE LET i == CHOOSE x \in starts : TRUE
         IN  BlockTerm(a, b, i) + BlockSum(a, b, starts \ {i})

\* The value of i when the block loop is left.
LoopEnd(n) == 4 * Cardinality(BlockStarts(n, 0))

\* The NEON path: the blocks, the horizontal sum (vaddvq_f32), then the
\* scalar tail from where the block loop stopped. Defined where the block
\* loop stays inside its arguments.
l2_neon(a, b) ==
    BlockSum(a, b, BlockStarts(Len(a), 0)) + ScalarSum(a, b, LoopEnd(Len(a)), Len(a))

\* l2_distance as compiled: the NEON path or the scalar fallback.
l2_distance(a, b) == IF neon THEN l2_neon(a, b) ELSE l2_distance_(a, b)

\* The indices of a (and of b) the tail loop of lines 53-56 loads.
TailReads(n) == {i \in 0..(n - 1) : i >= LoopEnd(n)}

\* No call of the kernel on its own.
NoKernelCall == [pc |-> "none", a |-> <<>>, b |-> <<>>, out |-> 0]

\* A caller hands a and b to l2_distance.
KernelArgs(a, b) == [pc |-> "called", a |-> a, b |-> b, out |-> 0]

\* l2_distance(a, b) from call to return. A block loop that runs past the
\* end of the vectors goes on until the bound wraps, far outside the
\* process's memory: the call faults instead of returning.
KernelCall ==
    /\ kern.pc = "called"
    /\ kern' = IF neon /\ KernelOutOfBounds(Len(kern.a))
               THEN [kern EXCEPT !.pc = "fault"]
               ELSE [kern EXCEPT !.pc = "returned", !.out = l2_distance(kern.a, kern.b)]
    /\ UNCHANGED <<neon, junk, dim_, M_, ef_, nodes, entry_point, max_level, readers, th,
                   feed, batch, tl_visited>>

-----------------------------------------------------------------------------
(* Node container.                                                         *)

NodeCount == Len(nodes)

Ids == 0..(NodeCount - 1)

VecOf(i) == nodes[i + 1].vec

LevelOf(i) == nodes[i + 1].level

\* nodes_[i]->neighbors[l]
Nbrs(i, l) == nodes[i + 1].neighbors[l + 1]

\* Node(v, lvl): neighbors(lvl + 1) empty lists, level(lvl).
NewNode(v, lvl) == [vec |-> v, level |-> lvl, neighbors |-> [j \in 1..(lvl + 1) |-> <<>>]]

\* ns with nodes_[i]->neighbors[l] replaced by list.
WithNbrs(ns, i, l, list) ==
    [ns EXCEPT ![i + 1].neighbors[l + 1] = list]

\* The soft cap of a layer: (l == 0) ? M_ * 2 : M_   (cmd_args.h:176)
Cap(l) == IF l = 0 THEN M_ * 2 ELSE M_

-----------------------------------------------------------------------------
(* prune_neighbors_heuristic, cmd_args.h:240-260.                          *)

Scored(base_id, neighbors) ==
    [i \in 1..Len(neighbors) |->
        <<l2_distance(VecOf(base_id), VecOf(neighbors[i])), neighbors[i]>>]

RECURSIVE SelectLoop(_, _, _)
SelectLoop(scored, i, selected) ==
    IF i > Len(scored) THEN selected
    ELSE LET c    == scored[i]
             good == \A j \in 1..Len(selected) :
                        ~(l2_distance(VecOf(c[2]), VecOf(selected[j])) < c[1])
             sel2 == IF good THEN Append(selected, c[2]) ELSE selected
         IN  IF Len(sel2) >= M_ THEN sel2
             ELSE SelectLoop(scored, i + 1, sel2)

\* prune_neighbors_heuristic without the diversity test: the M nearest.
prune_neighbors_heuristic_nearest(base_id, neighbors) ==
    IF Len(neighbors) < M_ THEN neighbors
    ELSE LET scored == SortPairs(Scored(base_id, neighbors))
         IN  [i \in 1..M_ |-> scored[i][2]]

prune_neighbors_heuristic(base_id, neighbors) ==
    IF Len(neighbors) < M_ THEN neighbors
    ELSE SelectLoop(SortPairs(Scored(base_id, neighbors)), 1, <<>>)

-----------------------------------------------------------------------------
(* search_layer_internal, cmd_args.h:193-238, one neighbor-list read per    *)
(* step. A traversal is [top, cand, visited]: the two priority queues as    *)
(* sets of (distance, id) pairs and the ids whose scratchpad slot equals    *)
(* the current version.                                                     *)

\* SeedTraversal that leaves the entry out of `top`.
SeedTraversal_noTop(q, entry) ==
    LET d0 == l2_distance(q, VecOf(entry))
    IN  [top |-> {}, cand |-> {<<d0, entry>>}, visited |-> {entry}]

\* Lines 199-202: seed both queues with the entry and mark it.
SeedTraversal(q, entry) ==
    LET d0 == l2_distance(q, VecOf(entry))
    IN  [top |-> {<<d0, entry>>}, cand |-> {<<d0, entry>>}, visited |-> {entry}]

\* Lines 218-228: the loop over the copied list nbs, from position i.
RECURSIVE VisitNeighbors(_, _, _, _, _)
VisitNeighbors(q, nbs, i, st, ef) ==
    IF i > Len(nbs) THEN st
    ELSE LET nb == nbs[i]
         IN  IF nb \in st.visited THEN VisitNeighbors(q, nbs, i + 1, st, ef)
             ELSE LET d     == l2_distance(q, VecOf(nb))
                      admit == Cardinality(st.top) < ef \/ d < MaxPair(st.top)[1]
                      top1  == IF admit THEN st.top \cup {<<d, nb>>} ELSE st.top
                      top2  == IF Cardinality(top1) > ef
                               THEN top1 \ {MaxPair(top1)} ELSE top1
                      st2   == [top     |-> top2,
                                cand    |-> IF admit THEN st.cand \cup {<<d, nb>>}
                                            ELSE st.cand,
                                visited |-> st.visited \cup {nb}]
                  IN  VisitNeighbors(q, nbs, i + 1, st2, ef)

\* Lines 204-208: the loop goes on while cand is non-empty and the popped
\* candidate does not trigger the break.
LoopContinues(st, ef) ==
    /\ st.cand # {}
    /\ ~(Cardinality(st.top) >= ef /\ MinPair(st.cand)[1] > MaxPair(st.top)[1])

\* Lines 211-216: the copy of curr's list, empty when curr has no such layer.
CopyNeighbors(curr, level) ==
    IF level < Len(nodes[curr + 1].neighbors) THEN Nbrs(curr, level) ELSE <<>>

\* One iteration of the while loop: pop, copy the list, visit it.
ExpandOnce(q, st, level, ef) ==
    LET c == MinPair(st.cand)
    IN  VisitNeighbors(q, CopyNeighbors(c[2], level), 1,
                       [st EXCEPT !.cand = st.cand \ {c}], ef)

\* The whole function on a graph that does not change meanwhile.
RECURSIVE RunTraversal(_, _, _, _)
RunTraversal(q, st, level, ef) ==
    IF LoopContinues(st, ef) THEN RunTraversal(q, ExpandOnce(q, st, level, ef), level, ef)
    ELSE DrainAscending(st.top)

search_layer_internal(q, entry, level, ef) ==
    RunTraversal(q, SeedTraversal(q, entry), level, ef)

-----------------------------------------------------------------------------
(* The visited scratchpad, cmd_args.h:106-120: tl_visited is thread-local,  *)
(* so it lives on from one call of the thread to the next. A scratchpad is  *)
(* [on, list, version]; slot i of the source is list[i + 1]. A thread whose *)
(* scratchpad has on = FALSE is followed by its `visited` set alone: the    *)
(* ids whose slot equals the version.                                       *)

\* The width of VisitedList::version (unsigned int), scaled down so that the
\* counter wraps within a few traversals.
VersionBits == 2
\* size() < nodes_.size() + 1024 (line 113) and resize(nodes_.size() + 8192)
\* (line 114), both scaled down with the number of nodes.
HeadroomCheck == 1
HeadroomGrow == 2

VersionMod == 2 ^ VersionBits

Untracked == [on |-> FALSE, list |-> <<>>, version |-> 0]

\* Lines 107-110: an empty list, version = 0.
VisitedList == [on |-> TRUE, list |-> <<>>, version |-> 0]

Zeros(n) == [i \in 1..n |-> 0]

\* prepare_visited_list that restarts the version at 1 without the fill.
prepare_visited_list_noFill(vl, n) ==
    LET grown == IF Len(vl.list) < n + HeadroomCheck
                 THEN vl.list \o Zeros(n + HeadroomGrow - Len(vl.list))
                 ELSE vl.list
        v     == (vl.version + 1) % VersionMod
    IN  [vl EXCEPT !.list = grown, !.version = IF v = 0 THEN 1 ELSE v]

\* Lines 112-120, with n = nodes_.size(): grow with zeroed slots, bump the
\* version, and on a wrap to 0 zero every slot and restart at 1.
prepare_visited_list(vl, n) ==
    LET grown == IF Len(vl.list) < n + HeadroomCheck
                 THEN vl.list \o Zeros(n + HeadroomGrow - Len(vl.list))
                 ELSE vl.list
        v     == (vl.version + 1) % VersionMod
    IN  IF v = 0 THEN [vl EXCEPT !.list = Zeros(Len(grown)), !.version = 1]
        ELSE [vl EXCEPT !.list = grown, !.version = v]

\* tl_visited.list[id] = tl_visited.version for every id of S (lines 202 and
\* 220). A store past the end of the vector leaves the vector as it is.
MarkVisited(vl, S) ==
    [vl EXCEPT !.list = [i \in 1..Len(vl.list) |->
                            IF (i - 1) \in S THEN vl.version ELSE vl.list[i]]]

\* The scratchpad of a thread after one of its steps, from its locals before
\* (r) and after (r2) and n = nodes_.size() after the step: the marks of the
\* loop iteration the step ran, and, when the step entered
\* search_layer_internal, lines 198 and 202.
ScratchAfter(vl, r, r2, n) ==
    IF ~vl.on THEN vl
    ELSE LET inLoop == r.pc = "trav"
             st     == ExpandOnce(r.q, [top |-> r.top, cand |-> r.cand,
                                        visited |-> r.visited], r.l, r.tef)
             vl1    == IF inLoop THEN MarkVisited(vl, st.visited \ r.visited) ELSE vl
             began  == /\ r2.pc = "trav"
                       /\ inLoop => ~LoopContinues(st, r.tef)
         IN  IF began THEN MarkVisited(prepare_visited_list(vl1, n), {r2.ep})
             ELSE vl1

Tracked(t) ==
    [tl_visited EXCEPT ![t] = ScratchAfter(tl_visited[t], th[t], th'[t], Len(nodes'))]

-----------------------------------------------------------------------------
(* Threads. pc is the place of the thread in insert_internal or search:     *)
(*   idle      not in a call                                                *)
(*   trav      inside search_layer_internal, before the next list read      *)
(*   install   at line 168, about to assign candidates to its own list      *)
(*   prune     at line 169, about to prune its own list                     *)
(*   link      in the loop of lines 173-179, before locking Head(final)     *)
(*   crown     at line 185, about to take global_lock_ exclusively          *)
(*   returned  search has returned `out` to its caller                      *)
(*   crashed   the distance kernel ran past the end of its arguments        *)
(* use tells what the running traversal is for: descend (line 159), link    *)
(* (line 165), sdescend (line 271), sfinal (line 275).                      *)

IdleThread ==
    [pc |-> "idle", op |-> "none", use |-> "none", lvl |-> 0, new_id |-> -1, max_l |-> -1,
     ep |-> -1, l |-> -1, tef |-> 0, q |-> <<>>,
     top |-> {}, cand |-> {}, visited |-> {},
     candidates |-> <<>>, final |-> <<>>,
     k |-> 0, ef_search |-> 0, ef |-> 0, out |-> <<>>,
     scanned |-> FALSE, exact |-> <<>>]

Crashed == \E t \in DOMAIN th : th[t].pc = "crashed"

\* The ids whose insert_internal has registered the node and not returned.
InFlight == {th[t].new_id : t \in {u \in DOMAIN th : th[u].new_id # -1}}

Quiescent == \A t \in DOMAIN th : th[t].pc \in {"idle", "returned"}

\* Entering search_layer_internal(r.q, entry, level, ef) for purpose use:
\* the locals after lines 198-202.
BeginTraversal(r, entry, level, ef, use) ==
    LET st == SeedTraversal(r.q, entry)
    IN  [r EXCEPT !.pc = "trav", !.use = use, !.ep = entry, !.l = level, !.tef = ef,
                  !.top = st.top, !.cand = st.cand, !.visited = st.visited]

\* The first distance a call computes (line 199) is where a kernel that
\* reads out of bounds faults.
FirstTraversal(r, entry, level, ef, use) ==
    IF neon /\ KernelOutOfBounds(Len(r.q))
    THEN [r EXCEPT !.pc = "crashed"]
    ELSE BeginTraversal(r, entry, level, ef, use)

\* AfterRegistration with linking started at lvl instead of min(lvl, max_l).
AfterRegistration_noMin(r) ==
    IF r.max_l > r.lvl
    THEN FirstTraversal(r, r.ep, r.max_l, 1, "descend")
    ELSE FirstTraversal(r, r.ep, r.lvl, ef_, "link")

\* Lines 157-165 after registration: descend from max_l while above lvl,
\* else start linking at min(lvl, max_l).
AfterRegistration(r) ==
    IF r.max_l > r.lvl
    THEN FirstTraversal(r, r.ep, r.max_l, 1, "descend")
    ELSE FirstTraversal(r, r.ep, Min2(r.lvl, r.max_l), ef_, "link")

\* What the caller of search_layer_internal does with the result res, up to
\* its next access to shared state.
DescendNext(r, res) ==
    LET ep2 == IF res # <<>> THEN res[1] ELSE r.ep
    IN  IF r.l - 1 > r.lvl
        THEN BeginTraversal(r, ep2, r.l - 1, 1, "descend")
        ELSE BeginTraversal(r, ep2, Min2(r.lvl, r.max_l), ef_, "link")

SearchDescendNext(r, res) ==
    LET ep2 == IF res # <<>> THEN res[1] ELSE r.ep
    IN  IF r.l - 1 > 0
        THEN BeginTraversal(r, ep2, r.l - 1, 1, "sdescend")
        ELSE BeginTraversal(r, ep2, 0, r.ef, "sfinal")

\* Lines 276-277: candidates.resize(k) when longer than k.
Truncate(res, k) == IF Len(res) > k THEN SubSeq(res, 1, k) ELSE res

TraversalDone(r, res) ==
    LET r0 == [r EXCEPT !.top = {}, !.cand = {}, !.visited = {}]
    IN  CASE r.use = "descend"  -> DescendNext(r0, res)
          [] r.use = "sdescend" -> SearchDescendNext(r0, res)
          [] r.use = "link"     -> [r0 EXCEPT !.pc = "install", !.candidates = res]
          [] r.use = "sfinal"   -> [r0 EXCEPT !.pc = "returned", !.use = "none",
                                              !.out = Truncate(res, r.k)]

\* Lines 180-190 once the loop over final_n_ids is over: advance ep, go one
\* layer down, and below layer 0 either go for the crown or return.
LayerDone(r) ==
    LET ep2 == IF r.candidates # <<>> THEN r.candidates[1] ELSE r.ep
        r0  == [r EXCEPT !.candidates = <<>>, !.final = <<>>]
    IN  IF r.l - 1 >= 0
        THEN BeginTraversal(r0, ep2, r.l - 1, ef_, "link")
        ELSE IF r.lvl > r.max_l
             THEN [r0 EXCEPT !.pc = "crown", !.use = "none", !.ep = ep2, !.l = -1]
             ELSE IdleThread

-----------------------------------------------------------------------------
(* insert_internal, cmd_args.h:130-191.                                     *)

\* ExclusiveFree for a lock that shared holders do not keep out.
ExclusiveFree_ignoresReaders == TRUE

\* std::unique_lock lock(global_lock_) (lines 143 and 185) can be taken: no
\* thread holds the lock in shared mode (the exclusive sections are single
\* steps, so none holds it exclusively between steps).
ExclusiveFree == readers = {}

\* NextId with the size read off by one.
NextId_stale == IF Len(nodes) > 0 THEN Len(nodes) - 1 ELSE 0

\* Line 144: new_id = nodes_.size()
NextId == Len(nodes)

\* Lines 141-154 under the exclusive global lock: append, read the top, and
\* on the empty index become the top and return.
Register(t, v, lvl) ==
    /\ ~Crashed
    /\ th[t].pc = "idle"
    /\ ExclusiveFree
    /\ LET new_id == NextId
           r      == [IdleThread EXCEPT !.op = "insert",
                                        !.lvl = lvl, !.new_id = new_id, !.q = v,
                                        !.ep = entry_point, !.max_l = max_level]
       IN  /\ nodes' = Append(nodes, NewNode(v, lvl))
           /\ IF entry_point = -1
              THEN /\ entry_point' = new_id
                   /\ max_level' = lvl
                   /\ th' = [th EXCEPT ![t] = IdleThread]
              ELSE /\ UNCHANGED <<entry_point, max_level>>
                   /\ th' = [th EXCEPT ![t] = AfterRegistration(r)]
    /\ UNCHANGED <<neon, junk, dim_, M_, ef_, kern, readers>>
    /\ tl_visited' = Tracked(t)

\* One iteration of the while loop of search_layer_internal (lines 204-229),
\* and, when the loop ends with it, the return to the caller.
Expand(t) ==
    /\ ~Crashed
    /\ th[t].pc = "trav"
    /\ \E st \in {ExpandOnce(th[t].q, [top |-> th[t].top, cand |-> th[t].cand,
                                       visited |-> th[t].visited], th[t].l, th[t].tef)} :
       \E r2 \in {IF LoopContinues(st, th[t].tef)
                  THEN [th[t] EXCEPT !.top = st.top, !.cand = st.cand,
                                     !.visited = st.visited]
                  ELSE TraversalDone(th[t], DrainAscending(st.top))} :
           /\ th' = [th EXCEPT ![t] = r2]
           /\ readers' = IF r2.pc = "returned" THEN readers \ {t} ELSE readers
    /\ UNCHANGED <<neon, junk, dim_, M_, ef_, kern, nodes, entry_point, max_level, feed, batch>>
    /\ tl_visited' = Tracked(t)

\* Line 168: nodes_[new_id]->neighbors[l] = candidates, no lock taken.
Install(t) ==
    /\ ~Crashed
    /\ th[t].pc = "install"
    /\ nodes' = WithNbrs(nodes, th[t].new_id, th[t].l, th[t].candidates)
    /\ th' = [th EXCEPT ![t].pc = "prune"]
    /\ UNCHANGED <<neon, junk, dim_, M_, ef_, kern, tl_visited, entry_point, max_level, readers, feed, batch>>

\* Lines 169-172: prune the own list in place and copy it to final_n_ids.
PruneOwn(t) ==
    /\ ~Crashed
    /\ th[t].pc = "prune"
    /\ LET r    == th[t]
           list == prune_neighbors_heuristic(r.new_id, Nbrs(r.new_id, r.l))
       IN  /\ nodes' = WithNbrs(nodes, r.new_id, r.l, list)
           /\ th' = [th EXCEPT ![t] = IF list = <<>> THEN LayerDone(r)
                                      ELSE [r EXCEPT !.pc = "link", !.final = list]]
    /\ UNCHANGED <<neon, junk, dim_, M_, ef_, kern, entry_point, max_level, readers, feed, batch>>
    /\ tl_visited' = Tracked(t)

\* Reciprocal without the prune of an over-full list.
Reciprocal_noPrune(nb, l, new_id) == Append(Nbrs(nb, l), new_id)

\* Lines 174-178 under nb's node_mutex: append new_id to nb's list and prune
\* the list when it is over the cap.
Reciprocal(nb, l, new_id) ==
    LET pushed == Append(Nbrs(nb, l), new_id)
    IN  IF Len(pushed) > Cap(l) THEN prune_neighbors_heuristic(nb, pushed) ELSE pushed

LinkNb(t) ==
    /\ ~Crashed
    /\ th[t].pc = "link"
    /\ LET r    == th[t]
           nb   == Head(r.final)
           rest == Tail(r.final)
       IN  IF r.l > LevelOf(nb)
           THEN \* nodes_[nb]->neighbors[l] is past the end of nb's lists
                /\ th' = [th EXCEPT ![t].pc = "crashed"]
                /\ UNCHANGED nodes
           ELSE /\ nodes' = WithNbrs(nodes, nb, r.l, Reciprocal(nb, r.l, r.new_id))
                /\ th' = [th EXCEPT ![t] = IF rest = <<>> THEN LayerDone(r)
                                           ELSE [r EXCEPT !.final = rest]]
    /\ UNCHANGED <<neon, junk, dim_, M_, ef_, kern, entry_point, max_level, readers, feed, batch>>
    /\ tl_visited' = Tracked(t)

\* TopAfterCrown that raises max_level_ and leaves entry_point_ as it was.
TopAfterCrown_keepEntry(lvl, new_id) ==
    IF lvl > max_level THEN [ep |-> entry_point, ml |-> lvl]
    ELSE [ep |-> entry_point, ml |-> max_level]

\* TopAfterCrown without the re-check: the raise is unconditional.
TopAfterCrown_noRecheck(lvl, new_id) == [ep |-> new_id, ml |-> lvl]

\* Lines 186-189 under the exclusive global lock: the re-check against the
\* current max_level_, and the raise. Yields the new (entry_point, max_level).
TopAfterCrown(lvl, new_id) ==
    IF lvl > max_level THEN [ep |-> new_id, ml |-> lvl]
    ELSE [ep |-> entry_point, ml |-> max_level]

Crown(t) ==
    /\ ~Crashed
    /\ th[t].pc = "crown"
    /\ ExclusiveFree
    /\ entry_point' = TopAfterCrown(th[t].lvl, th[t].new_id).ep
    /\ max_level' = TopAfterCrown(th[t].lvl, th[t].new_id).ml
    /\ th' = [th EXCEPT ![t] = IdleThread]
    /\ UNCHANGED <<neon, junk, dim_, M_, ef_, kern, tl_visited, nodes, readers, feed, batch>>

\* The own list of an in-flight node is written at lines 168-172 without its
\* node_mutex. Thread t is at such a write for layer l while thread u is
\* about to append to that very list (line 175) or to copy it (line 215):
\* the two accesses are not ordered by any lock.
Unordered(t, u) ==
    /\ t # u
    /\ th[t].pc \in {"install", "prune"}
    /\ th[u].l = th[t].l
    /\ \/ th[u].pc = "link" /\ Head(th[u].final) = th[t].new_id
       \/ th[u].pc = "trav" /\ LoopContinues(th[u], th[u].tef)
                            /\ MinPair(th[u].cand)[2] = th[t].new_id

\* A data race on a std::vector: besides either order of the two accesses
\* (Install, PruneOwn, LinkNb and Expand taken one after the other), the
\* process may fault on the vector's torn representation.
RaceFault(t) ==
    /\ ~Crashed
    /\ \E u \in DOMAIN th : Unordered(t, u)
    /\ th' = [th EXCEPT ![t].pc = "crashed"]
    /\ UNCHANGED <<neon, junk, dim_, M_, ef_, kern, tl_visited, nodes, entry_point, max_level, readers, feed, batch>>

\* Thread t is at the next list read of its traversal, and the list it is
\* about to copy holds an id that is no index of its slot vector: lines 219
\* and 220 then load and store past the end of tl_visited.list.
PadOverrun(t) ==
    /\ tl_visited[t].on
    /\ th[t].pc = "trav"
    /\ \E nb \in Range(CopyNeighbors(MinPair(th[t].cand)[2], th[t].l)) :
           nb >= Len(tl_visited[t].list)

\* The access past the end of the vector: the process may fault on it;
\* Expand is the outcome where the store lands in memory nothing else uses
\* and the traversal goes on.
ScratchFault(t) ==
    /\ ~Crashed
    /\ PadOverrun(t)
    /\ th' = [th EXCEPT ![t].pc = "crashed"]
    /\ UNCHANGED <<neon, junk, dim_, M_, ef_, kern, tl_visited, nodes, entry_point, max_level, readers, feed, batch>>

-----------------------------------------------------------------------------
(* search, cmd_args.h:262-278.                                              *)

\* Line 267: ef = (ef_search > 0) ? ef_search : std::max(ef_, k)
BeamWidth(k, ef_search) == IF ef_search > 0 THEN ef_search ELSE Max2(ef_, k)

\* SearchOnEmpty without the early return: the descent indexes nodes_[-1].
SearchOnEmpty_fallThrough(r) == [r EXCEPT !.pc = "crashed"]

\* Line 265: if (ep == -1) return {};
SearchOnEmpty(r) == [r EXCEPT !.pc = "returned", !.out = <<>>]

\* Lines 263-275 up to the first list read, under the shared global lock.
SearchBegin(t, query, k, ef_search) ==
    /\ ~Crashed
    /\ th[t].pc = "idle"
    /\ LET r  == [IdleThread EXCEPT !.op = "search",
                                    !.q = query, !.k = k, !.ef_search = ef_search,
                                    !.ef = BeamWidth(k, ef_search),
                                    !.ep = entry_point, !.max_l = max_level]
           r2 == IF entry_point = -1 THEN SearchOnEmpty(r)
                 ELSE IF max_level > 0
                      THEN FirstTraversal(r, entry_point, max_level, 1, "sdescend")
                      ELSE FirstTraversal(r, entry_point, 0, r.ef, "sfinal")
       IN  /\ th' = [th EXCEPT ![t] = r2]
           /\ readers' = IF r2.pc = "trav" THEN readers \cup {t} ELSE readers
    /\ UNCHANGED <<neon, junk, dim_, M_, ef_, kern, nodes, entry_point, max_level, feed, batch>>
    /\ tl_visited' = Tracked(t)

\* The caller takes the returned list; the thread is free for its next call.
SearchReturn(t) ==
    /\ th[t].pc = "returned"
    /\ th' = [th EXCEPT ![t] = IdleThread]
    /\ UNCHANGED <<neon, junk, dim_, M_, ef_, kern, tl_visited, nodes, entry_point, max_level, readers, feed, batch>>

-----------------------------------------------------------------------------
(* exact_knn_L2 and the comparison loop of the test driver,                 *)
(* src/unnamed/part_000:119-132 and 222-245.                                *)

\* Lines 120-122: (distance, index) for every element of data.
ScanPairs(data, query) ==
    [i \in 1..Len(data) |-> <<l2_distance(query, data[i]), i - 1>>]

\* dist.resize(k) after std::nth_element: the k least pairs when k <= size,
\* and (k - size) value-initialised pairs (0.0f, 0) appended when k > size.
ResizeTo(dist, k) ==
    IF k <= Len(dist) THEN SubSeq(SortPairs(dist), 1, k)
    ELSE dist \o [i \in 1..(k - Len(dist)) |-> <<0, 0>>]

\* Lines 126-131: sort, then the ids in that order.
exact_knn_L2(data, query, k) ==
    LET sorted == SortPairs(ResizeTo(ScanPairs(data, query), k))
    IN  [i \in 1..Len(sorted) |-> sorted[i][2]]

\* The dataset of the driver: the vectors in the order they were inserted.
Dataset == [i \in 1..Len(nodes) |-> nodes[i].vec]

\* Line 224 for the query just answered. std::nth_element with nth past
\* the end (k > size) is undefined: a checked build aborts there, an
\* unchecked one runs on to the resize.
CompareExact(t) ==
    /\ ~Crashed
    /\ th[t].pc = "returned"
    /\ ~th[t].scanned
    /\ \/ th' = [th EXCEPT ![t].scanned = TRUE,
                           ![t].exact = exact_knn_L2(Dataset, th[t].q, th[t].k)]
       \/ /\ th[t].k > Len(Dataset)
          /\ th' = [th EXCEPT ![t].pc = "crashed"]
    /\ UNCHANGED <<neon, junk, dim_, M_, ef_, kern, tl_visited, nodes, entry_point, max_level, readers, feed, batch>>

-----------------------------------------------------------------------------
(* insert_batch, cmd_args.h:66-90.                                          *)

\* The sampled level: the number of successes before the first failure,
\* at most MaxLevel here (at most 16 in the source, line 135).
Levels == 0..MaxLevel

\* The thread that calls insert_batch; worker k of the call is thread k.
Caller == 0

BatchThreads == {Caller} \cup Threads

\* batch.pc is the place of the caller in insert_batch:
\*   none      not called
\*   prelude   in the loop of lines 71-73
\*   spawn     in the loop of lines 80-88, `workers` threads created so far
\*   join      at line 89, waiting for the workers
\*   returned  insert_batch has returned
\*   loop, compared   the caller builds a second index of the same
\*             parameters by a loop over insert (part_000:190-192)
\* w[k] is worker k: about to fetch (line 83), holding idx before its call
\* of insert_internal (line 85), or out of its loop. calls lists the calls
\* of insert_internal the batch has made: the data index, the thread and
\* the level sampled. first keeps the index the batch built.
NoBatch ==
    [pc |-> "none", data |-> <<>>, num_threads |-> 0, core |-> 0, i |-> 0,
     next_idx |-> 0, workers |-> 0, w |-> <<>>, calls |-> <<>>, j |-> 0,
     first |-> <<>>]

\* core_size with no sequential core at all.
core_size_none(data) == 0

\* Line 70: core_size = std::min(data.size(), (size_t) 500), the 500 being
\* CoreSize here.
core_size(data) == Min2(Len(data), CoreSize)

\* FirstParallel started one element late.
FirstParallel_skip(core) == core + 1

\* Line 79: next_idx(core_size)
FirstParallel(core) == core

\* BatchItem that walks data from its end.
BatchItem_rev(data, idx) == data[Len(data) - idx]

\* Lines 72 and 85: data[i], data[idx]
BatchItem(data, idx) == data[idx + 1]

\* Lines 67-70: the call, with its early return on empty data.
BatchCall(data, num_threads) ==
    /\ ~Crashed
    /\ batch.pc = "none"
    /\ th[Caller].pc = "idle"
    /\ batch' = IF data = <<>> THEN [NoBatch EXCEPT !.pc = "returned",
                                                     !.num_threads = num_threads]
                ELSE [NoBatch EXCEPT !.pc = "prelude", !.data = data,
                                     !.num_threads = num_threads,
                                     !.core = core_size(data)]
    /\ UNCHANGED <<neon, junk, dim_, M_, ef_, kern, tl_visited, nodes, entry_point, max_level,
                   readers, th, feed>>

\* Lines 71-73: the next insert_internal(data[i]) of the sequential core, on
\* the calling thread, once the previous one has returned.
BatchPrelude ==
    /\ batch.pc = "prelude"
    /\ batch.i < batch.core
    /\ \E lvl \in Levels :
          /\ Register(Caller, BatchItem(batch.data, batch.i), lvl)
          /\ batch' = [batch EXCEPT !.i = @ + 1,
                                    !.calls = Append(@, [idx |-> batch.i, by |-> Caller,
                                                         lvl |-> lvl])]
    /\ UNCHANGED feed

\* Line 75 and lines 78-79: return when the core was all of data, else set
\* up the shared counter.
BatchCoreDone ==
    /\ ~Crashed
    /\ batch.pc = "prelude"
    /\ batch.i = batch.core
    /\ th[Caller].pc = "idle"
    /\ batch' = IF batch.core >= Len(batch.data) THEN [batch EXCEPT !.pc = "returned"]
                ELSE [batch EXCEPT !.pc = "spawn",
                                   !.next_idx = FirstParallel(batch.core)]
    /\ UNCHANGED <<neon, junk, dim_, M_, ef_, kern, tl_visited, nodes, entry_point, max_level,
                   readers, th, feed>>

\* Lines 80-88: one round of the loop that creates the workers; a worker
\* runs from its creation on.
BatchSpawn ==
    /\ ~Crashed
    /\ batch.pc = "spawn"
    /\ batch' = IF batch.workers < batch.num_threads
                THEN [batch EXCEPT !.workers = @ + 1,
                                   !.w = Append(@, [pc |-> "fetch", idx |-> 0])]
                ELSE [batch EXCEPT !.pc = "join"]
    /\ UNCHANGED <<neon, junk, dim_, M_, ef_, kern, tl_visited, nodes, entry_point, max_level,
                   readers, th, feed>>

\* Lines 83-84 in worker k: the atomic fetch_add, and the break.
WorkerFetch(k) ==
    /\ ~Crashed
    /\ k \in 1..batch.workers
    /\ batch.w[k].pc = "fetch"
    /\ th[k].pc = "idle"
    /\ LET idx == batch.next_idx
       IN  batch' = [batch EXCEPT !.next_idx = idx + 1,
                                  !.w[k] = IF idx >= Len(batch.data)
                                           THEN [pc |-> "exit", idx |-> idx]
                                           ELSE [pc |-> "hold", idx |-> idx]]
    /\ UNCHANGED <<neon, junk, dim_, M_, ef_, kern, tl_visited, nodes, entry_point, max_level,
                   readers, th, feed>>

\* Line 85 in worker k: insert_internal(data[idx]).
WorkerInsert(k) ==
    /\ k \in 1..batch.workers
    /\ batch.w[k].pc = "hold"
    /\ \E lvl \in Levels :
          /\ Register(k, BatchItem(batch.data, batch.w[k].idx), lvl)
          /\ batch' = [batch EXCEPT !.w[k].pc = "fetch",
                                    !.calls = Append(@, [idx |-> batch.w[k].idx, by |-> k,
                                                         lvl |-> lvl])]
    /\ UNCHANGED feed

\* Line 89: every worker has left its loop and is joined.
BatchJoin ==
    /\ ~Crashed
    /\ batch.pc = "join"
    /\ \A k \in 1..batch.workers : batch.w[k].pc = "exit"
    /\ batch' = [batch EXCEPT !.pc = "returned"]
    /\ UNCHANGED <<neon, junk, dim_, M_, ef_, kern, tl_visited, nodes, entry_point, max_level,
                   readers, th, feed>>

\* The level the batch sampled for data[idx].
CallLevel(idx) == (CHOOSE c \in Range(batch.calls) : c.idx = idx).lvl

\* After insert_batch(data, 1) has returned the caller keeps the index it
\* built and constructs a second, empty one with the same parameters
\* (HNSW::HNSW, lines 60-63).
LoopBegin ==
    /\ ~Crashed
    /\ batch.pc = "returned"
    /\ batch.num_threads = 1
    /\ batch' = [batch EXCEPT !.pc = "loop", !.j = 0,
                              !.first = <<nodes, entry_point, max_level>>]
    /\ nodes' = <<>>
    /\ entry_point' = -1
    /\ max_level' = -1
    /\ UNCHANGED <<neon, junk, dim_, M_, ef_, kern, tl_visited, readers, th, feed>>

\* for (const auto &v: dataset) index.insert(v), part_000:190-192, each
\* insert with the level the batch had sampled for that element.
LoopInsert ==
    /\ batch.pc = "loop"
    /\ batch.j < Len(batch.data)
    /\ Register(Caller, batch.data[batch.j + 1], CallLevel(batch.j))
    /\ batch' = [batch EXCEPT !.j = @ + 1]
    /\ UNCHANGED feed

LoopDone ==
    /\ ~Crashed
    /\ batch.pc = "loop"
    /\ batch.j = Len(batch.data)
    /\ th[Caller].pc = "idle"
    /\ batch' = [batch EXCEPT !.pc = "compared"]
    /\ UNCHANGED <<neon, junk, dim_, M_, ef_, kern, tl_visited, nodes, entry_point, max_level,
                   readers, th, feed>>

-----------------------------------------------------------------------------
(* Inputs.                                                                  *)

\* Vectors of dimension 4, the shortest the 4-lane kernel handles.
Points == {<<0, 0, 0, 0>>, <<1, 0, 0, 0>>}

Queries == {<<0, 0, 0, 0>>, <<2, 0, 0, 0>>}

Ks == {1, 2, 5}

EfSearches == {-1, 0, 1, 3}

InitWith(builds, d, params, inputs) ==
    /\ neon \in builds
    /\ dim_ = d
    /\ \E p \in params : M_ = p.M /\ ef_ = p.ef
    /\ nodes = <<>>
    /\ entry_point = -1
    /\ max_level = -1
    /\ readers = {}
    /\ th = [t \in Threads |-> IdleThread]
    /\ tl_visited = [t \in Threads |-> Untracked]
    /\ feed = inputs
    /\ junk = 0
    /\ kern = NoKernelCall
    /\ batch = NoBatch

\* Threads carry no state from one call to the next, so a call that starts
\* is given to the lowest-numbered idle thread.
LowestIdle(t) == \A u \in DOMAIN th : u < t => th[u].pc # "idle"

\* insert(vec) (line 92) with a vector out of `points` and a sampled level.
Insert(t, points, bound) ==
    /\ NodeCount < bound
    /\ LowestIdle(t)
    /\ \E v \in points, lvl \in Levels : Register(t, v, lvl)
    /\ UNCHANGED <<feed, batch>>

\* insert(vec) where the level sampled at lines 134-135 is 0, the likeliest one.
InsertFlat(t, points, bound) ==
    /\ NodeCount < bound
    /\ LowestIdle(t)
    /\ \E v \in points : Register(t, v, 0)
    /\ UNCHANGED <<feed, batch>>

\* insert(vec) with the next vector of the caller's list.
InsertFed(t) ==
    /\ feed # <<>>
    /\ \E lvl \in Levels : Register(t, Head(feed), lvl)
    /\ feed' = Tail(feed)
    /\ UNCHANGED batch

\* search(query, k, ef_search) (line 96) with arguments of the caller's choice.
Search(t, queries, ks, efs) ==
    \E query \in queries, k \in ks, ef_search \in efs :
        SearchBegin(t, query, k, ef_search)

-----------------------------------------------------------------------------
(* Spec: any number of threads insert concurrently. The scalar build: on    *)
(* vectors of length 4 the 4-lane kernel runs one block and no tail, and     *)
(* SpecQuery runs both builds.                                               *)

Init == InitWith({FALSE}, 4, {[M |-> 1, ef |-> 2]}, <<>>)

Next ==
    \E t \in Threads :
        \/ Insert(t, Points, MaxNodes)
        \/ Expand(t)
        \/ Install(t)
        \/ PruneOwn(t)
        \/ LinkNb(t)
        \/ Crown(t)
        \/ RaceFault(t)

Spec == Init /\ [][Next]_vars

-----------------------------------------------------------------------------
(* SpecQuery: one thread builds the index and queries it between inserts.   *)

InitQuery == InitWith(BOOLEAN, 4, {[M |-> 1, ef |-> 2], [M |-> 3, ef |-> 3]}, <<>>)

NextQuery ==
    \/ Insert(1, Points, SeqNodes)
    \/ Expand(1)
    \/ Install(1)
    \/ PruneOwn(1)
    \/ LinkNb(1)
    \/ Crown(1)
    \/ Search(1, Queries, Ks, EfSearches)
    \/ CompareExact(1)
    \/ SearchReturn(1)

SpecQuery == InitQuery /\ [][NextQuery]_vars

-----------------------------------------------------------------------------
(* SpecTiny: the four corners of the unit square (coordinates times ten),   *)
(* dim = 2, M = 4, ef_construction = 10, inserted in order by one thread,   *)
(* with queries [0.1, 0.1] and [0.9, 0.9] (times ten) at any moment.        *)

TinyData == << <<0, 0>>, <<0, 10>>, <<10, 0>>, <<10, 10>> >>

TinyQueries == {<<1, 1>>, <<9, 9>>}

TinyKs == {1, 5}

TinyEfSearches == {-1, 0, 10}

InitTiny == InitWith(BOOLEAN, 2, {[M |-> 4, ef |-> 10]}, TinyData)

NextTiny ==
    \/ InsertFed(1)
    \/ Expand(1)
    \/ Install(1)
    \/ PruneOwn(1)
    \/ LinkNb(1)
    \/ Crown(1)
    \/ Search(1, TinyQueries, TinyKs, TinyEfSearches)
    \/ SearchReturn(1)

SpecTiny == InitTiny /\ [][NextTiny]_vars

-----------------------------------------------------------------------------
(* SpecBatch: one insert_batch call on a fresh index, scalar build, with    *)
(* no element, with the sequential core only, and with two elements left    *)
(* to one or two workers.                                                   *)

BatchSizes == {0, CoreSize, CoreSize + 2}

ThreadCounts == {1, 2}

\* Pairwise different vectors: (0,0,0,0), (1,0,0,0), (3,0,0,0), (7,0,0,0), ...
BatchData(n) == [i \in 1..n |-> <<2 ^ (i - 1) - 1, 0, 0, 0>>]

InitBatch ==
    /\ neon = FALSE
    /\ junk = 0
    /\ dim_ = 4 /\ M_ = 1 /\ ef_ = 2
    /\ nodes = <<>> /\ entry_point = -1 /\ max_level = -1
    /\ readers = {}
    /\ th = [t \in BatchThreads |-> IdleThread]
    /\ tl_visited = [t \in BatchThreads |-> Untracked]
    /\ feed = <<>>
    /\ kern = NoKernelCall
    /\ batch = NoBatch

NextBatch ==
    \/ \E n \in BatchSizes, nt \in ThreadCounts : BatchCall(BatchData(n), nt)
    \/ BatchPrelude
    \/ BatchCoreDone
    \/ BatchSpawn
    \/ BatchJoin
    \/ \E k \in Threads : WorkerFetch(k) \/ WorkerInsert(k)
    \/ \E t \in BatchThreads :
          \/ Expand(t)
          \/ Install(t)
          \/ PruneOwn(t)
          \/ LinkNb(t)
          \/ Crown(t)
          \/ RaceFault(t)
    \/ LoopBegin
    \/ LoopInsert
    \/ LoopDone

SpecBatch == InitBatch /\ [][NextBatch]_vars

-----------------------------------------------------------------------------
(* SpecMixed: two threads, each inserting or searching at any moment, on    *)
(* the scalar build.                                                        *)

MixedQueries == {<<2, 0, 0, 0>>}

\* The next step of thread t inside the call it is running.
Step(t) ==
    \/ Expand(t)
    \/ Install(t)
    \/ PruneOwn(t)
    \/ LinkNb(t)
    \/ Crown(t)
    \/ SearchReturn(t)

NextMixed ==
    \E t \in Threads :
        \/ Insert(t, Points, MaxNodes)
        \/ Search(t, MixedQueries, {1}, {-1})
        \/ Step(t)
        \/ RaceFault(t)

SpecMixed == Init /\ [][NextMixed]_vars

-----------------------------------------------------------------------------
(* SpecLive: thread 1 inserts up to LiveNodes vectors while thread 2        *)
(* searches, under fair scheduling: a thread inside a call is not held back *)
(* forever while its next step stays possible, and a thread waiting for     *)
(* global_lock_ in exclusive mode gets it if the lock is free again and     *)
(* again. Nothing obliges a caller to start a call.                         *)

LiveNodes == 2

NextLive ==
    \/ Insert(1, Points, LiveNodes)
    \/ Search(2, MixedQueries, {1}, {-1})
    \/ \E t \in Threads : Step(t) \/ RaceFault(t)

Fairness == \A t \in Threads : WF_vars(Step(t)) /\ SF_vars(Crown(t))

SpecLive == Init /\ [][NextLive]_vars /\ Fairness

\* The same without the fault a data race may end in: the two unordered
\* accesses in either order only.
NextOrdered ==
    \/ Insert(1, Points, LiveNodes)
    \/ Search(2, MixedQueries, {1}, {-1})
    \/ \E t \in Threads : Step(t)

SpecOrdered == Init /\ [][NextOrdered]_vars /\ Fairness

-----------------------------------------------------------------------------
(* SpecDim: an index constructed with dim = 4 whose caller also passes      *)
(* vectors of five elements to insert and to search. Against a stored       *)
(* vector of four elements the kernel then loads a fifth one, past the end  *)
(* of its storage (junk).                                                   *)

LongVector == <<0, 0, 0, 0, 2>>

DimPoints == Points \cup {LongVector}

DimQueries == {<<2, 0, 0, 0>>, LongVector}

JunkValues == {0, 3}

InitDim ==
    /\ neon \in BOOLEAN
    /\ junk \in JunkValues
    /\ dim_ = 4 /\ M_ = 1 /\ ef_ = 2
    /\ nodes = <<>> /\ entry_point = -1 /\ max_level = -1
    /\ readers = {}
    /\ th = [t \in Threads |-> IdleThread]
    /\ tl_visited = [t \in Threads |-> Untracked]
    /\ feed = <<>>
    /\ kern = NoKernelCall
    /\ batch = NoBatch

NextDim ==
    \/ Insert(1, DimPoints, MaxNodes)
    \/ Expand(1)
    \/ Install(1)
    \/ PruneOwn(1)
    \/ LinkNb(1)
    \/ Crown(1)
    \/ Search(1, DimQueries, {1, 2}, {-1})
    \/ SearchReturn(1)

SpecDim == InitDim /\ [][NextDim]_vars

-----------------------------------------------------------------------------
(* SpecKernel: l2_distance on its own, on every pair of equal-length        *)
(* vectors of up to MaxLen elements, in both builds.                        *)

KernelValues == {0, 2}

Vectors(n) == [1..n -> KernelValues]

InitKernel ==
    /\ neon \in BOOLEAN
    /\ junk = 0
    /\ dim_ = 4 /\ M_ = 1 /\ ef_ = 2
    /\ nodes = <<>> /\ entry_point = -1 /\ max_level = -1
    /\ readers = {}
    /\ th = [t \in Threads |-> IdleThread]
    /\ tl_visited = [t \in Threads |-> Untracked]
    /\ feed = <<>>
    /\ batch = NoBatch
    /\ \E n \in 0..MaxLen : \E a, b \in Vectors(n) : kern = KernelArgs(a, b)

NextKernel == KernelCall

SpecKernel == InitKernel /\ [][NextKernel]_vars

-----------------------------------------------------------------------------
(* SpecLayer: one thread builds an index over three points of a line with   *)
(* M = 2 and ef_construction = 3, and queries it between inserts. Every      *)
(* call of search_layer_internal and of prune_neighbors_heuristic that       *)
(* insert and search make is made on a graph no other thread changes.        *)

LayerPoints == {<<0, 0, 0, 0>>, <<1, 0, 0, 0>>, <<3, 0, 0, 0>>}

LayerQueries == {<<2, 0, 0, 0>>}

LayerKs == {1, 3}

LayerEfSearches == {-1, 1}

InitLayer == InitWith({FALSE}, 4, {[M |-> 2, ef |-> 3]}, <<>>)

NextLayer ==
    \/ Insert(1, LayerPoints, MaxNodes)
    \/ Expand(1)
    \/ Install(1)
    \/ PruneOwn(1)
    \/ LinkNb(1)
    \/ Crown(1)
    \/ Search(1, LayerQueries, LayerKs, LayerEfSearches)
    \/ SearchReturn(1)

SpecLayer == InitLayer /\ [][NextLayer]_vars

-----------------------------------------------------------------------------
(* SpecScratch: one thread inserts and searches, its scratchpad followed    *)
(* slot by slot, long enough for the version counter to wrap.                *)

InitScratch ==
    /\ neon = FALSE
    /\ junk = 0
    /\ dim_ = 4 /\ M_ = 1 /\ ef_ = 2
    /\ nodes = <<>> /\ entry_point = -1 /\ max_level = -1
    /\ readers = {}
    /\ th = [t \in Threads |-> IdleThread]
    /\ tl_visited = [t \in Threads |-> VisitedList]
    /\ feed = <<>>
    /\ kern = NoKernelCall
    /\ batch = NoBatch

NextScratch ==
    \/ Insert(1, Points, MaxNodes)
    \/ Expand(1)
    \/ Install(1)
    \/ PruneOwn(1)
    \/ LinkNb(1)
    \/ Crown(1)
    \/ Search(1, MixedQueries, {1}, {-1})
    \/ SearchReturn(1)

SpecScratch == InitScratch /\ [][NextScratch]_vars

-----------------------------------------------------------------------------
(* SpecHeadroom: thread 1 searches and inserts, thread 2 inserts, both       *)
(* scratchpads followed slot by slot. Every node is at level 0, so that no   *)
(* node is reachable before its only list is installed and linked.          *)

NextHeadroom ==
    \/ Search(1, MixedQueries, {1}, {-1})
    \/ SearchReturn(1)
    \/ \E t \in Threads :
        \/ InsertFlat(t, Points, SeqNodes)
        \/ Expand(t)
        \/ Install(t)
        \/ PruneOwn(t)
        \/ LinkNb(t)
        \/ ScratchFault(t)

SpecHeadroom == InitScratch /\ [][NextHeadroom]_vars

-----------------------------------------------------------------------------
(* SpecFrame: thread 1 inserts while thread 2 searches, both scratchpads     *)
(* followed slot by slot.                                                    *)

NextFrame ==
    \/ Insert(1, Points, LiveNodes)
    \/ Search(2, MixedQueries, {1}, {-1})
    \/ \E t \in Threads : Step(t) \/ RaceFault(t)

SpecFrame == InitScratch /\ [][NextFrame]_vars

-----------------------------------------------------------------------------
(* Properties.                                                              *)

\* The ids reachable from the set `from` over layer-l lists.
RECURSIVE ReachFrom(_, _)
ReachFrom(from, l) ==
    LET next == from \cup UNION {Range(CopyNeighbors(u, l)) : u \in from}
    IN  IF next = from THEN from ELSE ReachFrom(next, l)

\* The ids whose insert has returned.
Returned == Ids \ InFlight

Searching(t) == th[t].op = "search"

Distinct(s) == \A i, j \in 1..Len(s) : i # j => s[i] # s[j]

\* s lists ids of stored nodes by ascending distance from q.
Ascending(s, q) ==
    \A i \in 1..(Len(s) - 1) :
        l2_distance_(q, VecOf(s[i])) <= l2_distance_(q, VecOf(s[i + 1]))

LayerCoherence ==
    /\ \A u \in Ids :
          /\ Len(nodes[u + 1].neighbors) = LevelOf(u) + 1
          /\ \A l \in 0..LevelOf(u) : \A v \in Range(Nbrs(u, l)) :
                v \in Ids /\ LevelOf(v) >= l
    /\ \A t \in Threads :
          /\ th[t].pc = "trav" =>
                /\ th[t].ep \in Ids /\ LevelOf(th[t].ep) >= th[t].l
                /\ \A p \in th[t].cand : p[2] \in Ids /\ LevelOf(p[2]) >= th[t].l
          /\ th[t].pc = "link" =>
                \A nb \in Range(th[t].final) : nb \in Ids /\ LevelOf(nb) >= th[t].l

\* C2 witness: two inserts are in progress, one of them linking at layer 1
\* to a node that the other one registered.
LayerCoherenceWitness ==
    \E t, u \in Threads :
        /\ t # u
        /\ th[t].pc = "link" /\ th[t].l = 1
        /\ th[u].new_id # -1
        /\ Head(th[t].final) = th[u].new_id

\* C3. Crown: the index is empty exactly when entry_point = -1 and exactly
\* when max_level = -1; otherwise entry_point is a stored node whose level is
\* max_level, and with no insert in progress no node is above max_level.
\* (The exclusive sections are single steps, so every state is one a thread
\* holding the global lock can observe.)
CrownInvariant ==
    /\ (entry_point = -1) = (NodeCount = 0)
    /\ (max_level = -1) = (NodeCount = 0)
    /\ NodeCount > 0 => entry_point \in Ids /\ LevelOf(entry_point) = max_level
    /\ Quiescent => \A u \in Ids : LevelOf(u) <= max_level

\* C3 witness: two inserts that read the same old max_level are both at the
\* crown update, both with a level above it.
CrownRaceWitness ==
    \E t, u \in Threads :
        /\ t # u
        /\ th[t].pc = "crown" /\ th[u].pc = "crown"
        /\ th[t].max_l = th[u].max_l
        /\ th[t].lvl > th[t].max_l /\ th[u].lvl > th[u].max_l

\* C4. Identifier density: the id an insert holds names the node that it
\* appended (its vector, its level), no two inserts in progress hold the same
\* id, every step leaves the stored nodes' vectors and levels in place, and
\* the container grows by one node at a time, at the end.
IdDensityState ==
    \A t \in Threads :
        th[t].new_id # -1 =>
            /\ th[t].new_id \in Ids
            /\ VecOf(th[t].new_id) = th[t].q
            /\ LevelOf(th[t].new_id) = th[t].lvl
            /\ \A u \in Threads : u # t => th[u].new_id # th[t].new_id

IdDensityStep ==
    /\ Len(nodes') \in {Len(nodes), Len(nodes) + 1}
    /\ \A i \in 1..Len(nodes) :
          nodes'[i].vec = nodes[i].vec /\ nodes'[i].level = nodes[i].level
    /\ \A t \in Threads :
          (th[t].new_id = -1 /\ th'[t].new_id # -1) =>
              th'[t].new_id = Len(nodes) /\ Len(nodes') = Len(nodes) + 1

IdDensity == [](IdDensityState) /\ [][IdDensityStep]_vars

\* C4 witness: two inserts in progress hold the ids 1 and 2, after a first
\* insert that returned with id 0.
IdDensityWitness ==
    /\ NodeCount = 3
    /\ \E t, u \in Threads : th[t].new_id = 1 /\ th[u].new_id = 2

\* C5. Query bound: a search that has returned on an index of N nodes gives
\* exactly min(K, N) ids, all distinct, by ascending distance from q.
QueryBound ==
    \A t \in Threads :
        (Searching(t) /\ th[t].pc = "returned") =>
            /\ Len(th[t].out) = Min2(th[t].k, NodeCount)
            /\ Distinct(th[t].out)
            /\ Ascending(th[t].out, th[t].q)

\* C6. The beam of the layer-0 traversal of search is max(ef_search, K) when
\* ef_search > 0 and max(ef_construction, K) otherwise, so never below K.
ClaimedBeam(k, ef_search) ==
    IF ef_search > 0 THEN Max2(ef_search, k) ELSE Max2(ef_, k)

BeamNeverBelowK ==
    \A t \in Threads :
        (Searching(t) /\ th[t].pc = "trav" /\ th[t].use = "sfinal") =>
            /\ th[t].tef = ClaimedBeam(th[t].k, th[t].ef_search)
            /\ th[t].tef >= th[t].k

\* C7. Visibility: every node whose insert has returned is reachable from
\* the entry point over layer-0 lists.
VisibleAfterInsert ==
    entry_point # -1 => Returned \subseteq ReachFrom({entry_point}, 0)

\* C8. A search on the empty index returns the empty list at once: it has
\* not faulted, holds no lock, and has neither seeded nor marked any node.
EmptyIndexSearch ==
    \A t \in Threads :
        (Searching(t) /\ NodeCount = 0) =>
            /\ th[t].pc = "returned"
            /\ th[t].out = <<>>
            /\ th[t].top = {} /\ th[t].cand = {} /\ th[t].visited = {}
            /\ t \notin readers

\* C8 witness: a search with K = 5 has returned on the empty index.
EmptyIndexSearchWitness ==
    \E t \in Threads :
        /\ Searching(t) /\ th[t].pc = "returned" /\ th[t].k = 5
        /\ NodeCount = 0 /\ th[t].out = <<>>

\* C9. Tiny cluster: the scenario never faults, and once the four corners
\* are in, search(q, 1, 10) answers [0] for [0.1, 0.1] and [3] for
\* [0.9, 0.9], whatever levels were sampled.
TinyAnswer(q) == IF q = <<1, 1>> THEN <<0>> ELSE <<3>>

TinyAnswered(t) ==
    /\ Searching(t) /\ th[t].pc = "returned"
    /\ feed = <<>> /\ Returned = 0..3
    /\ th[t].k = 1 /\ th[t].ef_search = 10

TinyClusterExact ==
    /\ ~Crashed
    /\ \A t \in Threads : TinyAnswered(t) => th[t].out = TinyAnswer(th[t].q)

\* C9 on the build without the 4-lane kernel: the answers alone.
TinyClusterScalar ==
    ~neon => /\ ~Crashed
             /\ \A t \in Threads : TinyAnswered(t) => th[t].out = TinyAnswer(th[t].q)

\* C10. K exceeds N: with N <= M and N <= ef_construction, a search with
\* K > N and ef_search >= N returns all N stored ids by ascending distance,
\* and the exact scan of the driver for the same K gives the same list.
SmallIndexQuery(t) ==
    /\ Searching(t) /\ th[t].pc \in {"returned", "crashed"}
    /\ NodeCount >= 1 /\ NodeCount <= M_ /\ NodeCount <= ef_
    /\ th[t].k > NodeCount /\ th[t].ef_search >= NodeCount

AllByDistance(t) ==
    /\ Len(th[t].out) = NodeCount
    /\ Range(th[t].out) = Ids
    /\ \A i \in 1..(Len(th[t].out) - 1) :
          PairLess(<<l2_distance_(th[t].q, VecOf(th[t].out[i])), th[t].out[i]>>,
                   <<l2_distance_(th[t].q, VecOf(th[t].out[i + 1])), th[t].out[i + 1]>>)

KExceedsN ==
    \A t \in Threads :
        SmallIndexQuery(t) =>
            /\ th[t].pc = "returned"
            /\ AllByDistance(t)
            /\ th[t].scanned => th[t].exact = th[t].out

\* C10, the part about search alone.
KExceedsNSearch ==
    \A t \in Threads :
        (SmallIndexQuery(t) /\ th[t].pc = "returned") => AllByDistance(t)

\* The data indices the batch has passed to insert_internal, in call order.
CallIdx == [c \in 1..Len(batch.calls) |-> batch.calls[c].idx]

\* insert_batch is in progress or has just returned.
InBatch == batch.pc \in {"prelude", "spawn", "join", "returned"}

\* C11. insert_batch inserts every element exactly once: no data index is
\* ever passed to insert_internal twice or lies outside data, and when the
\* call has returned every index has been passed, every worker has left its
\* loop, no insert is still running, and the index holds exactly one node
\* per element of data (the fresh index has grown by |data|).
BatchEachOnce ==
    InBatch =>
        /\ Distinct(CallIdx)
        /\ Range(CallIdx) \subseteq 0..(Len(batch.data) - 1)
        /\ batch.pc = "returned" =>
              /\ Range(CallIdx) = 0..(Len(batch.data) - 1)
              /\ \A k \in 1..batch.workers : batch.w[k].pc = "exit"
              /\ Quiescent
              /\ NodeCount = Len(batch.data)
              /\ \A i \in 1..Len(batch.data) :
                    Cardinality({u \in Ids : VecOf(u) = batch.data[i]}) = 1

\* C11 witness: a batch with two workers has returned, and each of the two
\* workers inserted one of the elements past the sequential core.
BatchEachOnceWitness ==
    /\ batch.pc = "returned"
    /\ batch.num_threads = 2
    /\ Len(batch.data) = CoreSize + 2
    /\ \E c, d \in Range(batch.calls) : c.by = 1 /\ d.by = 2

\* C12. insert_batch(data, 1) against a loop over insert with the same
\* levels: the second index ends with the same nodes (ids, vectors, levels,
\* neighbor lists at every layer), the same entry_point and max_level.
BatchOneIsLoop ==
    batch.pc = "compared" =>
        batch.first = <<nodes, entry_point, max_level>>

\* C12 witness: the comparison was made for a batch that went past the
\* sequential core, on a graph of two layers with edges.
BatchOneIsLoopWitness ==
    /\ batch.pc = "compared"
    /\ Len(batch.data) = CoreSize + 2
    /\ \E c \in Range(batch.calls) : c.by = 1
    /\ max_level = 1
    /\ \E u \in Ids : LevelOf(u) = 1 /\ Nbrs(u, 1) # <<>>

\* C13. The 4-lane path: every call returns, having loaded only indices in
\* [0, n) in floor(n / 4) blocks and n mod 4 tail elements, with the sum of
\* squared differences the scalar reference gives; so l2([], []) = 0.
KernelMatchesScalar ==
    (neon /\ kern.pc \in {"returned", "fault"}) =>
        LET n == Len(kern.a)
        IN  /\ kern.pc = "returned"
            /\ BlockReads(n) \cup TailReads(n) \subseteq 0..(n - 1)
            /\ Cardinality(BlockStarts(n, 0)) = n \div 4
            /\ Cardinality(TailReads(n)) = n % 4
            /\ kern.out = l2_distance_(kern.a, kern.b)

\* C13 for the lengths the block loop handles: from 4 elements on.
KernelFromFour ==
    (neon /\ kern.pc \in {"returned", "fault"} /\ Len(kern.a) >= 4) =>
        LET n == Len(kern.a)
        IN  /\ kern.pc = "returned"
            /\ BlockReads(n) \cup TailReads(n) \subseteq 0..(n - 1)
            /\ Cardinality(BlockStarts(n, 0)) = n \div 4
            /\ Cardinality(TailReads(n)) = n % 4
            /\ kern.out = l2_distance_(kern.a, kern.b)

DimensionEnforced ==
    /\ \A u \in Ids : Len(VecOf(u)) = dim_
    /\ \A t \in Threads : th[t].op # "none" => Len(th[t].q) = dim_

\* C16. No data race on neighbor lists: no thread is at the unlocked write
\* of its new node's own list (lines 168-172) while another thread is about
\* to append to that list or to copy it.
ListRaceFree ==
    \A t, u \in Threads : ~Unordered(t, u)

\* C17. The node container is accessed under the global lock only: a thread
\* inside a traversal, or installing, pruning or linking (all of which index
\* nodes_, and the traversal reads nodes_.size() for its scratchpad), holds
\* the lock in shared mode; so none does while another thread appends.
ContainerGuarded ==
    \A t \in Threads :
        th[t].pc \in {"trav", "install", "prune", "link"} => t \in readers

\* C17 for searchers alone: search holds the lock from start to return.
SearcherGuarded ==
    \A t \in Threads :
        (Searching(t) /\ th[t].pc = "trav") => t \in readers

\* Thread t is inside a call that has not returned.
Running(t) == th[t].pc \notin {"idle", "returned"}

\* C18. Completion: under fair scheduling every call that has started
\* returns.
EveryCallReturns ==
    \A t \in Threads : Running(t) ~> ~Running(t)

\* Thread t lost the crown-update race: its level was above the max_level it
\* read at registration, and another insert has raised max_level to that
\* level or beyond before t takes the exclusive lock at line 185.
CrownLoser(t) ==
    /\ th[t].pc = "crown"
    /\ th[t].lvl > th[t].max_l
    /\ th[t].lvl <= max_level

\* One step of the index, for C20.
CrownMonotoneStep ==
    /\ max_level' >= max_level
    /\ entry_point' # entry_point =>
           (max_level' > max_level \/ entry_point = -1)
    /\ \A t \in Threads :
           (CrownLoser(t) /\ th'[t] # th[t]) =>
               /\ max_level' = max_level
               /\ entry_point' = entry_point
               /\ nodes' = nodes

\* C20. max_level never decreases; entry_point changes only in a step that
\* strictly raises max_level (the first insert into the empty index raises
\* it from -1); the step of an insert that lost the crown-update race
\* changes neither, and leaves every node and every installed link as it is.
CrownMonotone == [][CrownMonotoneStep]_vars

\* C20 witness: an insert has lost the race and is at the crown update, its
\* node linked into the graph at layer 0, another node being the entry point.
CrownLoserWitness ==
    \E t \in Threads :
        /\ CrownLoser(t)
        /\ Nbrs(th[t].new_id, 0) # <<>>
        /\ entry_point # th[t].new_id

\* The traversal thread t is in: its queues and its visited ids.
TraversalOf(t) == [top |-> th[t].top, cand |-> th[t].cand, visited |-> th[t].visited]

\* What the call of search_layer_internal that thread t is in returns.
LayerResult(t) == RunTraversal(th[t].q, TraversalOf(t), th[t].l, th[t].tef)

\* Thread t has just entered search_layer_internal: the queues hold the
\* entry alone.
AtSeed(t) == th[t].pc = "trav" /\ TraversalOf(t) = SeedTraversal(th[t].q, th[t].ep)

\* C21. Beam search on one layer: every call search_layer(q, ep, l, ef) that
\* an insert or a search makes (ep stored at layer l, ef >= 1) runs to its
\* end and returns a non-empty list of at most ef distinct ids, in ascending
\* order of distance to q, each of them ep or reachable from ep over layer-l
\* lists, the first no farther from q than ep.
BeamSearchResult ==
    \A t \in Threads :
        th[t].pc = "trav" =>
            LET res == LayerResult(t)
            IN  /\ LevelOf(th[t].ep) >= th[t].l /\ th[t].tef >= 1
                /\ res # <<>>
                /\ Len(res) <= th[t].tef
                /\ Distinct(res)
                /\ Ascending(res, th[t].q)
                /\ Range(res) \subseteq ReachFrom({th[t].ep}, th[t].l)
                /\ l2_distance_(th[t].q, VecOf(res[1]))
                       <= l2_distance_(th[t].q, VecOf(th[t].ep))
                /\ AtSeed(t) =>
                       res = search_layer_internal(th[t].q, th[t].ep, th[t].l, th[t].tef)

\* C21 witness: a beam search of width 1 has just started on a graph where
\* three nodes are reachable from its entry, and it will move to a node
\* strictly nearer to the query than the entry.
BeamSearchWitness ==
    \E t \in Threads :
        /\ AtSeed(t)
        /\ th[t].tef = 1
        /\ Cardinality(ReachFrom({th[t].ep}, th[t].l)) >= 3
        /\ l2_distance_(th[t].q, VecOf(LayerResult(t)[1]))
               < l2_distance_(th[t].q, VecOf(th[t].ep))

\* The candidates of `neighbors` by ascending distance to the base (equal
\* distances by ascending id), as (distance, id) pairs.
ByDistance(base_id, neighbors) ==
    SortPairs([i \in 1..Len(neighbors) |->
                  <<l2_distance_(VecOf(base_id), VecOf(neighbors[i])), neighbors[i]>>])

\* The positions of `sorted` accepted by a scan of its first i positions:
\* position i is accepted iff fewer than M are accepted before it and its
\* candidate is at least as far from every accepted one as from the base.
RECURSIVE Accepted(_, _)
Accepted(sorted, i) ==
    IF i = 0 THEN {}
    ELSE LET before == Accepted(sorted, i - 1)
             c      == sorted[i]
         IN  IF /\ Cardinality(before) < M_
                /\ \A j \in before :
                       l2_distance_(VecOf(c[2]), VecOf(sorted[j][2])) >= c[1]
             THEN before \cup {i}
             ELSE before

\* The ids at the positions of the set P of `sorted`, in ascending position.
RECURSIVE Pick(_, _, _)
Pick(sorted, P, i) ==
    IF i > Len(sorted) THEN <<>>
    ELSE (IF i \in P THEN <<sorted[i][2]>> ELSE <<>>) \o Pick(sorted, P, i + 1)

\* The reference result of pruning `neighbors` for the base.
PruneReference(base_id, neighbors) ==
    IF Len(neighbors) < M_ THEN neighbors
    ELSE LET sorted == ByDistance(base_id, neighbors)
         IN  Pick(sorted, Accepted(sorted, Len(sorted)), 1)

\* `after` is what the reference makes of `before`; with at least M ids in
\* `before` it is a part of it of at most M ids that holds the nearest one.
PrunedAs(base_id, before, after) ==
    /\ after = PruneReference(base_id, before)
    /\ Len(before) >= M_ =>
           /\ Range(after) \subseteq Range(before)
           /\ Len(after) <= M_
           /\ before # <<>> => ByDistance(base_id, before)[1][2] \in Range(after)
    /\ Len(before) < M_ => after = before

\* One step of the index, for C22: the prune of the new node's own list
\* (line 169) and the prune of a neighbor's over-full list (line 177).
PruneStep ==
    \A t \in Threads :
        /\ (th[t].pc = "prune" /\ th'[t] # th[t]) =>
               PrunedAs(th[t].new_id, Nbrs(th[t].new_id, th[t].l),
                        nodes'[th[t].new_id + 1].neighbors[th[t].l + 1])
        /\ (th[t].pc = "link" /\ th'[t] # th[t] /\ th'[t].pc # "crashed") =>
               LET nb     == Head(th[t].final)
                   pushed == Append(Nbrs(nb, th[t].l), th[t].new_id)
               IN  IF Len(pushed) > Cap(th[t].l)
                   THEN PrunedAs(nb, pushed, nodes'[nb + 1].neighbors[th[t].l + 1])
                   ELSE nodes'[nb + 1].neighbors[th[t].l + 1] = pushed

MarkedIds(vl) == {i \in 0..(Len(vl.list) - 1) : vl.list[i + 1] = vl.version}

\* Scratchpad vl is clean: its version is at least 1 and no slot holds it.
Clean(vl) == vl.version >= 1 /\ MarkedIds(vl) = {}

\* C23. Scratchpad epochs: whenever a thread calls prepare_visited_list, on
\* the index as it is, its version comes out >= 1 and no slot holds it, slots
\* added by the growth and the counter's wrap-around included; and all
\* through a traversal the slots that hold the version are those of the
\* nodes marked in it (the entry alone when it starts).
EpochsFresh ==
    \A t \in Threads :
        tl_visited[t].on =>
            /\ Clean(prepare_visited_list(tl_visited[t], NodeCount))
            /\ th[t].pc = "trav" =>
                   /\ tl_visited[t].version >= 1
                   /\ MarkedIds(tl_visited[t]) = th[t].visited
                   /\ AtSeed(t) => MarkedIds(tl_visited[t]) = {th[t].ep}

\* C23 witness: a traversal has started on the version after the wrap-around
\* (the counter is back at 1) while the thread's slot vector, sized by an
\* earlier traversal, is no longer the size a first call would give it.
EpochWrapWitness ==
    \E t \in Threads :
        /\ tl_visited[t].on
        /\ AtSeed(t)
        /\ tl_visited[t].version = 1
        /\ Len(tl_visited[t].list) # NodeCount + HeadroomGrow
        /\ NodeCount > 2

\* C24. Scratchpad bounds: no traversal is about to test or mark a slot past
\* the end of its thread's slot vector, whatever other threads have appended
\* and linked since the traversal sized the vector.
ScratchInBounds ==
    \A t \in Threads : ~PadOverrun(t)

\* C24 for the traversals of search alone, which run under the shared
\* global lock.
SearcherInBounds ==
    \A t \in Threads : Searching(t) => ~PadOverrun(t)

\* C25. Neighbor lists are sets that exclude their owner: once every insert
\* that was started has returned, no list of any node at any layer holds
\* the node's own id, and none holds an id twice.
ListsAreSets ==
    Quiescent =>
        \A u \in Ids : \A l \in 0..LevelOf(u) :
            /\ \A i \in 1..Len(Nbrs(u, l)) : Nbrs(u, l)[i] # u
            /\ Distinct(Nbrs(u, l))

\* Thread t takes this step as (or into) a search call.
SearchStepOf(t) ==
    /\ th'[t] # th[t]
    /\ Searching(t) \/ th'[t].op = "search"

\* One step of the index, for C26.
SearchFrameStep ==
    /\ \A t \in Threads :
           SearchStepOf(t) =>
               /\ nodes' = nodes
               /\ entry_point' = entry_point
               /\ max_level' = max_level
               /\ \A u \in Threads \ {t} : tl_visited'[u] = tl_visited[u]
    /\ (\E t \in Threads : Searching(t) /\ th[t].pc = "trav") =>
           Len(nodes') = Len(nodes)

\* C26. search is read-only on the graph: no step of a search call changes
\* a node, a neighbor list, entry_point or max_level (nor another thread's
\* scratchpad), and no node is appended while a search is in progress.
SearchReadOnly == [][SearchFrameStep]_vars

\* C26 witness: a search is inside its traversal, its scratchpad marked,
\* while the inserting thread is between two inserts and the index may
\* still grow.
SearchReadOnlyWitness ==
    \E t, u \in Threads :
        /\ Searching(t) /\ th[t].pc = "trav"
        /\ MarkedIds(tl_visited[t]) # {}
        /\ th[u].pc = "idle"
        /\ NodeCount >= 1 /\ NodeCount < LiveNodes

====
